---- MODULE Spec2Model ----
(***************************************************************************)
(* A model of the AutoCoder command dispatcher (src/main.py): the          *)
(* interactive loop, the one-shot invocation, command parsing, and every   *)
(* command handler with its try/except structure.  Each action is one      *)
(* step of a handler that ends at the next collaborator call or user       *)
(* interaction; the collaborators (API client, project manager, executor,  *)
(* error handler, logger) answer nondeterministically, an exception        *)
(* included.  The project manager's current-project pointer and project    *)
(* directory are modelled from its description in the specification.       *)
(*                                                                         *)
(* Text is a sequence of one-character strings.  The absent value (None,   *)
(* or any falsy string) is the empty sequence.                             *)
(***************************************************************************)
EXTENDS Integers, Sequences, FiniteSets, TLC

\* ---------------------------------------------------------------- bounds
\* Deepest nesting of _handle_retry frames in one command.
MaxDepth == 2
\* Most projects on disk when the session starts.
MaxInitProjects == 2

\* ------------------------------------------------------------------ text
None == <<>>

Whitespace == {" ", "\t"}

Digits == <<"0", "1", "2", "3", "4", "5", "6", "7", "8", "9">>

UpperCase == <<"A", "B", "C", "D", "E", "F", "G", "H", "I", "J", "K", "L", "M",
               "N", "O", "P", "Q", "R", "S", "T", "U", "V", "W", "X", "Y", "Z">>

LowerCase == <<"a", "b", "c", "d", "e", "f", "g", "h", "i", "j", "k", "l", "m",
               "n", "o", "p", "q", "r", "s", "t", "u", "v", "w", "x", "y", "z">>

LowerChar(c) ==
    IF \E i \in 1..26 : UpperCase[i] = c
    THEN LowerCase[CHOOSE i \in 1..26 : UpperCase[i] = c]
    ELSE c

\* str.lower()
Lower(s) == [i \in 1..Len(s) |-> LowerChar(s[i])]

RECURSIVE LStrip(_)
LStrip(s) ==
    IF s # <<>> /\ Head(s) \in Whitespace THEN LStrip(Tail(s)) ELSE s

RECURSIVE RStrip(_)
RStrip(s) ==
    IF s # <<>> /\ s[Len(s)] \in Whitespace
    THEN RStrip(SubSeq(s, 1, Len(s) - 1))
    ELSE s

\* str.strip()
Strip(s) == RStrip(LStrip(s))

\* Length of the leading run of non-whitespace characters.
RECURSIVE TokenLen(_)
TokenLen(s) ==
    IF s = <<>> \/ Head(s) \in Whitespace THEN 0 ELSE 1 + TokenLen(Tail(s))

\* str.split(maxsplit=1): leading whitespace is skipped, the first token is
\* cut at the first whitespace run, the remainder keeps its own trailing
\* whitespace and is dropped when empty.
Split1(s) ==
    LET t == LStrip(s)
        n == TokenLen(t)
        rest == LStrip(SubSeq(t, n + 1, Len(t)))
    IN  IF t = <<>> THEN <<>>
        ELSE IF rest = <<>> THEN <<SubSeq(t, 1, n)>>
        ELSE <<SubSeq(t, 1, n), rest>>

\* str.isdigit()
IsDigit(s) ==
    /\ s # <<>>
    /\ \A i \in 1..Len(s) : \E d \in 1..10 : Digits[d] = s[i]

DigitVal(c) == (CHOOSE d \in 1..10 : Digits[d] = c) - 1

\* int(s) for a string of decimal digits
RECURSIVE IntOf(_)
IntOf(s) ==
    IF s = <<>> THEN 0
    ELSE 10 * IntOf(SubSeq(s, 1, Len(s) - 1)) + DigitVal(s[Len(s)])

\* --------------------------------------------------------------- inputs
\* Names the API may give a generated project, and names of projects on disk.
Names == { <<"a">>, <<"b">> }

\* Lines ui.get_command() may return.
RawLines ==
    { <<>>, <<" ">>, <<" ", "\t">>,
      <<"n", "e", "w">>,
      <<"n", "e", "w", " ", "x">>,
      <<"r", "u", "n">>,
      <<" ", "R", "u", "n", " ">>,
      <<"r", "u", "n", " ", "a">>,
      <<"r", "u", "n", " ", "z">>,
      <<"e", "d", "i", "t">>,
      <<"e", "d", "i", "t", " ", "x">>,
      <<"r", "e", "t", "r", "y">>,
      <<"l", "o", "g", "s">>,
      <<"l", "o", "g", "s", " ", "x">>,
      <<"l", "i", "s", "t">>,
      <<"l", "o", "a", "d">>,
      <<"l", "o", "a", "d", " ", "b">>,
      <<"l", "o", "a", "d", " ", "z">>,
      <<"l", "o", "a", "d", " ", "1">>,
      <<"l", "o", "a", "d", " ", "2">>,
      <<"s", "t", "a", "t", "u", "s">>,
      <<"e", "x", "i", "t">>,
      <<"Q", "U", "I", "T">>,
      <<"q">>,
      <<"h", "e", "l", "p">>,
      <<"?">>,
      <<"f", "i", "x", " ", "i", "t">>,
      <<"n", "e", "w", "s">> }

\* Command lines " ".join(args.command) may produce in one-shot mode.
OneShotLines == (RawLines \ { <<>> }) \cup { <<" ", " ">> }

\* Answers ui.prompt() may return for a description or an instruction.
TextAnswers == { <<>>, <<"x">> }

\* Answers ui.prompt() may return for the selection of a project.
Choices == { <<>>, <<"a">>, <<"z">>, <<"0">>, <<"1">>, <<"2">>, <<"3">>, <<"0", "2">> }

\* ---------------------------------------------------------------- state
VARIABLES
    mode,       \* "interactive" (app.run()) or "oneshot" (args.command given)
    apiKey,     \* whether config.api_key is set
    top,        \* position outside the handlers: start, read, oneshot,
                \*   dispatch, handling, loop_except, exited
    stack,      \* call stack of handler frames, innermost last
    running,    \* AutoCoder.running
    current,    \* project manager's current-project pointer, None when unset
    projects,   \* project manager's projects, in list_projects() order
    command,    \* the line last read, as returned by ui.get_command()
    cur0,       \* the current-project pointer when that line was dispatched
    answer,     \* the last reply to ui.prompt() since that line was read
    log,        \* calls, returns, prompts and messages since that line was read
    exitCode    \* process exit code, -1 while the process runs

vars == <<mode, apiKey, top, stack, running, current, projects, command, cur0,
          answer, log, exitCode>>

\* One message, prompt or call: <<kind, what>>.
Ev(kind, what) == <<kind, what>>

\* A project specification as the API returns it, reduced to what the
\* dispatcher reads: name, whether the dependency list is non-empty, auto_run.
ProjectData == [name : Names, deps : BOOLEAN, auto_run : BOOLEAN]

NoData == [name |-> None, deps |-> FALSE, auto_run |-> FALSE]

\* A handler's activation: the function, its position, and its locals
\* (cp: current_project or project_path; arg: description, instruction or
\* project_name; data: project_data; listing: projects).
Frame(fn, pc, cp, arg, data, listing) ==
    [fn |-> fn, pc |-> pc, cp |-> cp, arg |-> arg, data |-> data,
     listing |-> listing]

NewFrame(fn, pc, arg) == Frame(fn, pc, None, arg, NoData, <<>>)

\* --------------------------------------------- project manager (pointer)
PathOf(name) == <<"projects/">> \o name

get_project_path(name) ==
    IF \E i \in 1..Len(projects) : projects[i] = name THEN PathOf(name) ELSE None

get_current_project == current

set_current_project(path) == current' = path

list_projects == projects

\* Duplicate-free sequences of names of at most n entries.
Listings(n) ==
    { s \in UNION { [1..k -> Names] : k \in 0..n } :
        \A i, j \in 1..Len(s) : i # j => s[i] # s[j] }

\* -------------------------------------------------------------- control
TopFrame == stack[Len(stack)]

At(pc) == top = "handling" /\ stack # <<>> /\ TopFrame.pc = pc

\* Call sites that lie inside a try block, and the except clause of each.
ExceptOf(pc) ==
    CASE pc = "new_call_run" -> "new_except"
      [] pc = "rc_call_retry" -> "rc_except"
      [] pc = "edit_call_run" -> "edit_except"
      [] pc = "retry_call_run" -> "retry_except"
      [] OTHER -> "none"

\* The stack after an exception has left its innermost frame: frames are
\* dropped down to the first one suspended inside a try block, which
\* resumes in its except clause; the empty stack when no handler catches it.
RECURSIVE Unwind(_)
Unwind(s) ==
    IF s = <<>> THEN <<>>
    ELSE LET f == s[Len(s)]
         IN  IF ExceptOf(f.pc) # "none"
             THEN [s EXCEPT ![Len(s)] = [f EXCEPT !.pc = ExceptOf(f.pc)]]
             ELSE Unwind(SubSeq(s, 1, Len(s) - 1))

\* Number of _handle_retry activations on the stack.
RECURSIVE Depth(_)
Depth(s) ==
    IF s = <<>> THEN 0
    ELSE Depth(Tail(s)) + (IF Head(s).fn = "retry" THEN 1 ELSE 0)

\* The command returned to its caller.  Every nested handler call (lines
\* 186, 201, 227, 264, 287, 372, 375) is the last statement of its path, so
\* the whole chain of frames returns.  In run() the while condition is
\* tested next; in main() the process ends.
Finish(events, run2) ==
    /\ log' = log \o events
    /\ stack' = <<>>
    /\ running' = run2
    /\ IF mode = "interactive" /\ run2
       THEN top' = "read" /\ exitCode' = -1
       ELSE top' = "exited" /\ exitCode' = 0

\* Variant: run() has no try block around the dispatch.
UncaughtEndsLoop(events) ==
    /\ stack' = <<>>
    /\ UNCHANGED running
    /\ log' = log \o events \o <<Ev("fatal", "Fatal error")>>
    /\ top' = "exited"
    /\ exitCode' = 1

\* An exception (class Exception) reached the caller of _handle_command:
\* run() catches it at line 98, main() at line 404.
Uncaught(events) ==
    /\ stack' = <<>>
    /\ UNCHANGED running
    /\ IF mode = "interactive"
       THEN log' = log \o events /\ top' = "loop_except" /\ exitCode' = -1
       ELSE /\ log' = log \o events \o <<Ev("fatal", "Fatal error")>>
            /\ top' = "exited"
            /\ exitCode' = 1

\* The step stays in its frame and moves to pc2 with locals f.
Goto(f, events) ==
    /\ log' = log \o events
    /\ stack' = [stack EXCEPT ![Len(stack)] = f]
    /\ UNCHANGED <<top, running, exitCode>>

\* The frame calls another handler from call site pc.
Call(pc, f, events) ==
    /\ log' = log \o events \o <<Ev("enter", f.fn)>>
    /\ stack' = Append([stack EXCEPT ![Len(stack)] = [@ EXCEPT !.pc = pc]], f)
    /\ UNCHANGED <<top, running, exitCode>>

\* An exception leaves the innermost frame.
Propagate(events) ==
    LET s == Unwind(SubSeq(stack, 1, Len(stack) - 1))
    IN  IF s = <<>> THEN Uncaught(events)
        ELSE /\ log' = log \o events
             /\ stack' = s
             /\ UNCHANGED <<top, running, exitCode>>

\* ----------------------------------------------------------------- Init
Init ==
    /\ mode \in {"interactive", "oneshot"}
    /\ apiKey \in BOOLEAN
    /\ top = "start"
    /\ stack = <<>>
    /\ running = TRUE
    /\ current = None
    /\ projects \in Listings(MaxInitProjects)
    /\ command = <<>>
    /\ cur0 = None
    /\ answer = <<>>
    /\ log = <<>>
    /\ exitCode = -1

\* ----------------------------------------------------------- initialize
\* AutoCoder.initialize and what run() / main() do with its result.
\* Variant: the result of the connection test is reported and ignored.
InitializeIgnoresTest ==
    /\ top = "start"
    /\ \E conn \in {"true", "false", "raise"}, dirs \in {"ok", "raise"} :
        LET ok == apiKey /\ conn # "raise" /\ dirs = "ok"
            events ==
                IF ~apiKey
                THEN <<Ev("error", "OpenRouter API key not found!")>>
                ELSE <<Ev("info", "Testing API connection..."),
                       Ev("call", "test_connection")>> \o
                     (CASE conn = "false" ->
                              <<Ev("error", "Failed to connect to OpenRouter API")>>
                        [] conn = "raise" ->
                              <<Ev("error", "Initialization failed")>>
                        [] OTHER ->
                              <<Ev("success", "API connection successful!")>> \o
                              (IF dirs = "raise"
                               THEN <<Ev("error", "Initialization failed")>>
                               ELSE <<>>))
        IN  /\ log' = events
            /\ IF ok
               THEN /\ top' = (IF mode = "interactive" THEN "read" ELSE "oneshot")
                    /\ exitCode' = -1
               ELSE /\ top' = "exited"
                    /\ exitCode' = (IF mode = "interactive" THEN 0 ELSE 1)
    /\ UNCHANGED <<mode, apiKey, stack, running, current, projects, command, cur0, answer>>

Initialize ==
    /\ top = "start"
    /\ \E conn \in {"true", "false", "raise"}, dirs \in {"ok", "raise"} :
        LET ok == apiKey /\ conn = "true" /\ dirs = "ok"
            events ==
                IF ~apiKey
                THEN <<Ev("error", "OpenRouter API key not found!")>>
                ELSE <<Ev("info", "Testing API connection..."),
                       Ev("call", "test_connection")>> \o
                     (CASE conn = "false" ->
                              <<Ev("error", "Failed to connect to OpenRouter API")>>
                        [] conn = "raise" ->
                              <<Ev("error", "Initialization failed")>>
                        [] OTHER ->
                              <<Ev("success", "API connection successful!")>> \o
                              (IF dirs = "raise"
                               THEN <<Ev("error", "Initialization failed")>>
                               ELSE <<>>))
        IN  /\ log' = events
            /\ IF ok
               THEN /\ top' = (IF mode = "interactive" THEN "read" ELSE "oneshot")
                    /\ exitCode' = -1
               ELSE /\ top' = "exited"
                    /\ exitCode' = (IF mode = "interactive" THEN 0 ELSE 1)
    /\ UNCHANGED <<mode, apiKey, stack, running, current, projects, command, cur0, answer>>

\* ------------------------------------------------------------- dispatch
ExitWords == { <<"e", "x", "i", "t">>, <<"q", "u", "i", "t">>, <<"q">> }

HelpWords == { <<"h", "e", "l", "p">>, <<"?">> }

\* The handler _handle_command selects for a lower-cased first token.
HandlerOf(cmd) ==
    CASE cmd = <<"n", "e", "w">> -> "new"
      [] cmd = <<"r", "u", "n">> -> "run"
      [] cmd = <<"e", "d", "i", "t">> -> "edit"
      [] cmd = <<"r", "e", "t", "r", "y">> -> "retry"
      [] cmd = <<"l", "o", "g", "s">> -> "logs"
      [] cmd = <<"l", "i", "s", "t">> -> "list"
      [] cmd = <<"l", "o", "a", "d">> -> "load"
      [] cmd = <<"s", "t", "a", "t", "u", "s">> -> "status"
      [] OTHER -> "nl"

\* The argument string _handle_command passes to the handler.
ArgOf(fn, c, args) ==
    CASE fn = "nl" -> c
      [] fn \in {"retry", "list", "status"} -> <<>>
      [] OTHER -> args

\* The string handed to _handle_command: stripped by run(), as joined by main().
Dispatched == IF mode = "interactive" THEN Strip(command) ELSE command

\* Variant: the line is tested for emptiness without being stripped.
ReadCommandUnstripped ==
    /\ top = "read"
    /\ \E raw \in RawLines :
        /\ command' = raw
        /\ answer' = <<>>
        /\ log' = <<>>
        /\ IF raw = <<>>
           THEN top' = "read"
           ELSE top' = "dispatch"
    /\ UNCHANGED <<mode, apiKey, stack, running, current, projects, cur0, exitCode>>

\* ui.get_command() in run(): an empty line is skipped, any other goes to
\* _handle_command.
ReadCommand ==
    /\ top = "read"
    /\ \E raw \in RawLines :
        /\ command' = raw
        /\ answer' = <<>>
        /\ log' = <<>>
        /\ IF raw = <<>> \/ Strip(raw) = <<>>
           THEN top' = "read"
           ELSE top' = "dispatch"
    /\ UNCHANGED <<mode, apiKey, stack, running, current, projects, cur0, exitCode>>

\* main(): the command line arguments joined by blanks.
OneShotCommand ==
    /\ top = "oneshot"
    /\ \E line \in OneShotLines : command' = line
    /\ answer' = <<>>
    /\ log' = <<>>
    /\ top' = "dispatch"
    /\ UNCHANGED <<mode, apiKey, stack, running, current, projects, cur0, exitCode>>

\* AutoCoder._handle_command
HandleCommand ==
    /\ top = "dispatch"
    /\ cur0' = current
    /\ LET c == Dispatched
           parts == Split1(c)
       IN  IF parts = <<>>
           THEN Uncaught(<<Ev("raise", "IndexError")>>)
           ELSE LET cmd == Lower(parts[1])
                    args == IF Len(parts) > 1 THEN parts[2] ELSE <<>>
                    fn == HandlerOf(cmd)
                IN  IF cmd \in ExitWords
                    THEN Finish(<<Ev("info", "Goodbye!")>>, FALSE)
                    ELSE IF cmd \in HelpWords
                    THEN Finish(<<Ev("info", "help")>>, running)
                    ELSE /\ log' = <<Ev("enter", fn)>>
                         /\ stack' = <<NewFrame(fn, "start", ArgOf(fn, c, args))>>
                         /\ top' = "handling"
                         /\ UNCHANGED <<running, exitCode>>
    /\ UNCHANGED <<mode, apiKey, current, projects, command, answer>>

\* run(), lines 98-100: the exception is logged and reported, and the loop
\* goes on; an exception raised by the logger here leaves run() and ends
\* the process in main()'s handler.
LoopExcept ==
    /\ top = "loop_except"
    /\ \E logger \in {"ok", "raise"} :
        IF logger = "ok"
        THEN /\ log' = log \o <<Ev("call", "logger.error"),
                                Ev("error", "An unexpected error occurred")>>
             /\ IF running
                THEN top' = "read" /\ exitCode' = -1
                ELSE top' = "exited" /\ exitCode' = 0
        ELSE /\ log' = log \o <<Ev("call", "logger.error"),
                                Ev("fatal", "Fatal error")>>
             /\ top' = "exited"
             /\ exitCode' = 1
    /\ UNCHANGED <<mode, apiKey, stack, running, current, projects, command, cur0, answer>>

\* AutoCoder._signal_handler: SIGINT or SIGTERM at any point of the run.
\* Variant: the signal handler sets the flag and returns.
SignalFlagOnly ==
    /\ top # "exited"
    /\ running
    /\ log' = log \o <<Ev("info", "Shutting down gracefully...")>>
    /\ running' = FALSE
    /\ UNCHANGED <<mode, apiKey, top, stack, current, projects, command, cur0,
                   answer, exitCode>>

Signal ==
    /\ top # "exited"
    /\ log' = log \o <<Ev("info", "Shutting down gracefully...")>>
    /\ running' = FALSE
    /\ stack' = <<>>
    /\ top' = "exited"
    /\ exitCode' = 0
    /\ UNCHANGED <<mode, apiKey, current, projects, command, cur0, answer>>

\* ------------------------------------------------- _handle_new_project
RunFrame == NewFrame("rc", "start", <<>>)

NewStart ==
    /\ At("start") /\ TopFrame.fn = "new"
    /\ \E reply \in TextAnswers :
        LET f == TopFrame
            asked == f.arg = <<>>
            description == IF asked THEN reply ELSE f.arg
            evs == IF asked THEN <<Ev("ask", "Describe your project: ")>> ELSE <<>>
        IN  /\ answer' = (IF asked THEN reply ELSE answer)
            /\ IF description = <<>>
               THEN Finish(evs \o <<Ev("error", "Project description is required")>>,
                           running)
               ELSE Goto([f EXCEPT !.pc = "new_generate", !.arg = description],
                         evs \o <<Ev("info", "Creating new project")>>)
    /\ UNCHANGED <<mode, apiKey, current, projects, command, cur0>>

\* What the log records of a returned project specification.
DataTag(d) ==
    CASE d.deps /\ d.auto_run -> "dependencies, auto_run"
      [] d.deps /\ ~d.auto_run -> "dependencies"
      [] ~d.deps /\ d.auto_run -> "auto_run"
      [] OTHER -> "no dependencies, no auto_run"

NewGenerate ==
    /\ At("new_generate")
    /\ \E out \in {"raise", "none", "data"}, project_data \in ProjectData :
        LET f == TopFrame
            call == <<Ev("call", "generate_project")>>
        IN  CASE out = "raise" -> Goto([f EXCEPT !.pc = "new_except"], call)
              [] out = "none" ->
                    Finish(call \o <<Ev("return", "none"),
                                     Ev("error", "Failed to generate project")>>,
                           running)
              [] OTHER ->
                    Goto([f EXCEPT !.pc = "new_create", !.data = project_data],
                         call \o <<Ev("return", DataTag(project_data))>>)
    /\ UNCHANGED <<mode, apiKey, current, projects, command, cur0, answer>>

\* create_project fails when the target exists (or is unwritable).
NewCreate ==
    /\ At("new_create")
    /\ \E out \in {"raise", "ok"} :
        LET f == TopFrame
            name == f.data.name
            call == <<Ev("call", "create_project")>>
        IN  IF out = "raise" \/ get_project_path(name) # None
            THEN /\ Goto([f EXCEPT !.pc = "new_except"], call)
                 /\ UNCHANGED projects
            ELSE /\ projects' = Append(projects, name)
                 /\ Goto([f EXCEPT !.cp = PathOf(name),
                                   !.pc = IF f.data.deps THEN "new_install"
                                                         ELSE "new_set"],
                         call)
    /\ UNCHANGED <<mode, apiKey, current, command, cur0, answer>>

\* Variant: the handler gives up after the warning.
NewInstallGivesUp ==
    /\ At("new_install")
    /\ \E out \in {"raise", "true", "false"} :
        LET f == TopFrame
            call == <<Ev("call", "install_dependencies")>>
        IN  CASE out = "raise" -> Goto([f EXCEPT !.pc = "new_except"], call)
              [] out = "false" ->
                    Finish(call \o <<Ev("warning", "Some dependencies failed to install")>>,
                           running)
              [] OTHER -> Goto([f EXCEPT !.pc = "new_set"], call)
    /\ UNCHANGED <<mode, apiKey, current, projects, command, cur0, answer>>

NewInstall ==
    /\ At("new_install")
    /\ \E out \in {"raise", "true", "false"} :
        LET f == TopFrame
            call == <<Ev("call", "install_dependencies")>>
        IN  CASE out = "raise" -> Goto([f EXCEPT !.pc = "new_except"], call)
              [] out = "false" ->
                    Goto([f EXCEPT !.pc = "new_set"],
                         call \o <<Ev("warning", "Some dependencies failed to install")>>)
              [] OTHER -> Goto([f EXCEPT !.pc = "new_set"], call)
    /\ UNCHANGED <<mode, apiKey, current, projects, command, cur0, answer>>

\* Variant: the project is started whatever auto_run says.
NewSetCurrentAlwaysRuns ==
    /\ At("new_set")
    /\ LET f == TopFrame
           done == <<Ev("success", "Project created successfully")>>
       IN  /\ set_current_project(f.cp)
           /\ Call("new_call_run", RunFrame,
                   done \o <<Ev("info", "Starting project...")>>)
    /\ UNCHANGED <<mode, apiKey, projects, command, cur0, answer>>

\* Variant: the pointer is not moved to the new project.
NewSetCurrentSkipped ==
    /\ At("new_set")
    /\ LET f == TopFrame
           done == <<Ev("success", "Project created successfully")>>
       IN  IF f.data.auto_run
           THEN Call("new_call_run", RunFrame,
                     done \o <<Ev("info", "Starting project...")>>)
           ELSE Finish(done, running)
    /\ UNCHANGED <<mode, apiKey, current, projects, command, cur0, answer>>

NewSetCurrent ==
    /\ At("new_set")
    /\ LET f == TopFrame
           done == <<Ev("success", "Project created successfully")>>
       IN  /\ set_current_project(f.cp)
           /\ IF f.data.auto_run
              THEN Call("new_call_run", RunFrame,
                        done \o <<Ev("info", "Starting project...")>>)
              ELSE Finish(done, running)
    /\ UNCHANGED <<mode, apiKey, projects, command, cur0, answer>>

\* An except clause: the logger is called, then the user is told; an
\* exception raised by the logger leaves the frame.
Except(message) ==
    \E logger \in {"ok", "raise"} :
        IF logger = "ok"
        THEN Finish(<<Ev("call", "logger.error"), Ev("error", message)>>, running)
        ELSE Propagate(<<Ev("call", "logger.error")>>)

NewExcept ==
    /\ At("new_except")
    /\ Except("Project creation failed")
    /\ UNCHANGED <<mode, apiKey, current, projects, command, cur0, answer>>

\* ------------------------------------------------- _handle_run_project
\* Variant: the not-found branch does not return.
RunStartFallsThrough ==
    /\ At("start") /\ TopFrame.fn = "run"
    /\ \E out \in {"raise", "ok"} :
        LET f == TopFrame
            project_name == f.arg
            project_path == get_project_path(project_name)
            call == <<Ev("call", "get_project_path")>>
        IN  IF project_name = <<>>
            THEN Call("run_call", RunFrame, <<>>) /\ UNCHANGED current
            ELSE IF out = "raise"
            THEN Propagate(call) /\ UNCHANGED current
            ELSE IF project_path = None
            THEN /\ Call("run_call", RunFrame,
                         call \o <<Ev("error", "Project not found")>>)
                 /\ UNCHANGED current
            ELSE /\ set_current_project(project_path)
                 /\ Call("run_call", RunFrame, call)
    /\ UNCHANGED <<mode, apiKey, projects, command, cur0, answer>>

RunStart ==
    /\ At("start") /\ TopFrame.fn = "run"
    /\ \E out \in {"raise", "ok"} :
        LET f == TopFrame
            project_name == f.arg
            project_path == get_project_path(project_name)
            call == <<Ev("call", "get_project_path")>>
        IN  IF project_name = <<>>
            THEN Call("run_call", RunFrame, <<>>) /\ UNCHANGED current
            ELSE IF out = "raise"
            THEN Propagate(call) /\ UNCHANGED current
            ELSE IF project_path = None
            THEN /\ Finish(call \o <<Ev("error", "Project not found")>>, running)
                 /\ UNCHANGED current
            ELSE /\ set_current_project(project_path)
                 /\ Call("run_call", RunFrame, call)
    /\ UNCHANGED <<mode, apiKey, projects, command, cur0, answer>>

\* ------------------------------------------------ _run_current_project
RunResults == [success : BOOLEAN, url : BOOLEAN, output : BOOLEAN, error : BOOLEAN]

\* Variant: the executor is called without the test of the pointer.
RunCurrentUnchecked ==
    /\ At("start") /\ TopFrame.fn = "rc"
    /\ \E out \in {"raise", "result"}, result \in RunResults :
        LET f == TopFrame
            current_project == get_current_project
            call == <<Ev("call", "run_project")>>
        IN  IF out = "raise"
            THEN Goto([f EXCEPT !.pc = "rc_except", !.cp = current_project], call)
            ELSE IF result.success
            THEN Finish(call \o <<Ev("success", "Project started successfully!")>>,
                        running)
            ELSE Goto([f EXCEPT !.pc = "rc_confirm", !.cp = current_project],
                      call \o <<Ev("error", "Project failed to start")>>)
    /\ UNCHANGED <<mode, apiKey, current, projects, command, cur0, answer>>

\* Variant: a failed start goes to the fix without asking.
RunCurrentAutoFix ==
    /\ At("start") /\ TopFrame.fn = "rc"
    /\ \E out \in {"raise", "result"}, result \in RunResults :
        LET f == TopFrame
            current_project == get_current_project
            call == <<Ev("call", "run_project")>>
        IN  IF current_project = None
            THEN Finish(<<Ev("error", "No project loaded. Use 'new' or 'load'.")>>,
                        running)
            ELSE IF out = "raise"
            THEN Goto([f EXCEPT !.pc = "rc_except", !.cp = current_project], call)
            ELSE IF result.success
            THEN Finish(call \o <<Ev("success", "Project started successfully!")>>,
                        running)
            ELSE /\ Depth(stack) < MaxDepth
                 /\ Call("rc_call_retry", NewFrame("retry", "start", <<>>),
                         call \o <<Ev("error", "Project failed to start")>>)
    /\ UNCHANGED <<mode, apiKey, current, projects, command, cur0, answer>>

RunCurrent ==
    /\ At("start") /\ TopFrame.fn = "rc"
    /\ \E out \in {"raise", "result"}, result \in RunResults :
        LET f == TopFrame
            current_project == get_current_project
            call == <<Ev("call", "run_project")>>
        IN  IF current_project = None
            THEN Finish(<<Ev("error", "No project loaded. Use 'new' or 'load'.")>>,
                        running)
            ELSE IF out = "raise"
            THEN Goto([f EXCEPT !.pc = "rc_except", !.cp = current_project], call)
            ELSE IF result.success
            THEN Finish(call \o <<Ev("success", "Project started successfully!")>>
                        \o (IF result.url THEN <<Ev("info", "Server running at")>>
                                          ELSE <<>>)
                        \o (IF result.output THEN <<Ev("output", "result.output")>>
                                             ELSE <<>>),
                        running)
            ELSE Goto([f EXCEPT !.pc = "rc_confirm", !.cp = current_project],
                      call \o <<Ev("error", "Project failed to start")>>
                      \o (IF result.error THEN <<Ev("error", "result.error")>>
                                          ELSE <<>>))
    /\ UNCHANGED <<mode, apiKey, current, projects, command, cur0, answer>>

\* Variant: the fix is started whatever the answer is.
RunConfirmIgnored ==
    /\ At("rc_confirm")
    /\ \E yes \in BOOLEAN :
        LET ask == <<Ev("ask", "Would you like me to try to fix the error?")>>
        IN  /\ Depth(stack) < MaxDepth
            /\ Call("rc_call_retry", NewFrame("retry", "start", <<>>),
                    ask \o <<Ev("answer", IF yes THEN "yes" ELSE "no")>>)
    /\ UNCHANGED <<mode, apiKey, current, projects, command, cur0, answer>>

RunConfirm ==
    /\ At("rc_confirm")
    /\ \E yes \in BOOLEAN :
        LET ask == <<Ev("ask", "Would you like me to try to fix the error?")>>
        IN  IF yes
            THEN /\ Depth(stack) < MaxDepth
                 /\ Call("rc_call_retry", NewFrame("retry", "start", <<>>),
                         ask \o <<Ev("answer", "yes")>>)
            ELSE Finish(ask \o <<Ev("answer", "no")>>, running)
    /\ UNCHANGED <<mode, apiKey, current, projects, command, cur0, answer>>

\* Variant: a failure of the executor unloads the project.
RunExceptUnloads ==
    /\ At("rc_except")
    /\ Except("Execution failed")
    /\ current' = None
    /\ UNCHANGED <<mode, apiKey, projects, command, cur0, answer>>

RunExcept ==
    /\ At("rc_except")
    /\ Except("Execution failed")
    /\ UNCHANGED <<mode, apiKey, current, projects, command, cur0, answer>>

\* ------------------------------------------------ _handle_edit_project
\* Variant: the instruction is asked for before the pointer is tested.
EditStartPromptFirst ==
    /\ At("start") /\ TopFrame.fn = "edit"
    /\ \E reply \in TextAnswers :
        LET f == TopFrame
            current_project == get_current_project
            asked == f.arg = <<>>
            instruction == IF asked THEN reply ELSE f.arg
            evs == IF asked THEN <<Ev("ask", "What would you like to change? ")>>
                            ELSE <<>>
        IN  /\ answer' = (IF asked THEN reply ELSE answer)
            /\ IF current_project = None
               THEN Finish(evs \o <<Ev("error", "No project loaded")>>, running)
               ELSE IF instruction = <<>>
               THEN Finish(evs \o <<Ev("error", "Edit instruction is required")>>,
                           running)
               ELSE Goto([f EXCEPT !.pc = "edit_info", !.cp = current_project,
                                   !.arg = instruction],
                         evs \o <<Ev("info", "Applying changes")>>)
    /\ UNCHANGED <<mode, apiKey, current, projects, command, cur0>>

EditStart ==
    /\ At("start") /\ TopFrame.fn = "edit"
    /\ \E reply \in TextAnswers :
        LET f == TopFrame
            current_project == get_current_project
            asked == f.arg = <<>>
            instruction == IF asked THEN reply ELSE f.arg
            evs == IF asked THEN <<Ev("ask", "What would you like to change? ")>>
                            ELSE <<>>
        IN  IF current_project = None
            THEN Finish(<<Ev("error", "No project loaded")>>, running)
                 /\ UNCHANGED answer
            ELSE /\ answer' = (IF asked THEN reply ELSE answer)
                 /\ IF instruction = <<>>
                    THEN Finish(evs \o <<Ev("error", "Edit instruction is required")>>,
                                running)
                    ELSE Goto([f EXCEPT !.pc = "edit_info", !.cp = current_project,
                                        !.arg = instruction],
                              evs \o <<Ev("info", "Applying changes")>>)
    /\ UNCHANGED <<mode, apiKey, current, projects, command, cur0>>

EditInfo ==
    /\ At("edit_info")
    /\ \E out \in {"raise", "ok"} :
        LET f == TopFrame
        IN  Goto([f EXCEPT !.pc = IF out = "raise" THEN "edit_except"
                                                   ELSE "edit_generate"],
                 <<Ev("call", "get_project_info")>>)
    /\ UNCHANGED <<mode, apiKey, current, projects, command, cur0, answer>>

EditGenerate ==
    /\ At("edit_generate")
    /\ \E out \in {"raise", "none", "changes"} :
        LET f == TopFrame
            call == <<Ev("call", "edit_project")>>
        IN  CASE out = "raise" -> Goto([f EXCEPT !.pc = "edit_except"], call)
              [] out = "none" ->
                    Finish(call \o <<Ev("error", "Failed to generate changes")>>,
                           running)
              [] OTHER -> Goto([f EXCEPT !.pc = "edit_apply"], call)
    /\ UNCHANGED <<mode, apiKey, current, projects, command, cur0, answer>>

EditApply ==
    /\ At("edit_apply")
    /\ \E out \in {"raise", "ok"} :
        LET f == TopFrame
            call == <<Ev("call", "apply_changes")>>
        IN  IF out = "raise"
            THEN Goto([f EXCEPT !.pc = "edit_except"], call)
            ELSE Goto([f EXCEPT !.pc = "edit_confirm"],
                      call \o <<Ev("success", "Changes applied successfully!")>>)
    /\ UNCHANGED <<mode, apiKey, current, projects, command, cur0, answer>>

EditConfirm ==
    /\ At("edit_confirm")
    /\ \E yes \in BOOLEAN :
        LET ask == <<Ev("ask", "Would you like to run the updated project?")>>
        IN  IF yes
            THEN Call("edit_call_run", RunFrame, ask \o <<Ev("answer", "yes")>>)
            ELSE Finish(ask \o <<Ev("answer", "no")>>, running)
    /\ UNCHANGED <<mode, apiKey, current, projects, command, cur0, answer>>

EditExcept ==
    /\ At("edit_except")
    /\ Except("Edit failed")
    /\ UNCHANGED <<mode, apiKey, current, projects, command, cur0, answer>>

\* -------------------------------------------------------- _handle_retry
RetryStart ==
    /\ At("start") /\ TopFrame.fn = "retry"
    /\ \E out \in {"raise", "true", "false"} :
        LET f == TopFrame
            current_project == get_current_project
            call == <<Ev("info", "Analyzing and fixing errors..."),
                      Ev("call", "fix_project_errors")>>
        IN  IF current_project = None
            THEN Finish(<<Ev("error", "No project loaded")>>, running)
            ELSE CASE out = "raise" ->
                        Goto([f EXCEPT !.pc = "retry_except",
                                       !.cp = current_project], call)
                   [] out = "false" ->
                        Finish(call \o <<Ev("error",
                                   "Could not automatically fix the errors")>>,
                               running)
                   [] OTHER ->
                        Call("retry_call_run", RunFrame,
                             call \o <<Ev("success",
                                   "Errors fixed! Trying to run again...")>>)
    /\ UNCHANGED <<mode, apiKey, current, projects, command, cur0, answer>>

RetryExcept ==
    /\ At("retry_except")
    /\ Except("Retry failed")
    /\ UNCHANGED <<mode, apiKey, current, projects, command, cur0, answer>>

\* ---------------------------------------------------- _handle_show_logs
ShowLogs ==
    /\ At("start") /\ TopFrame.fn = "logs"
    /\ \E out \in {"raise", "some", "empty"} :
        LET call == <<Ev("call", "get_recent_logs")>>
        IN  CASE out = "raise" -> Propagate(call)
              [] out = "some" ->
                    Finish(call \o <<Ev("info", "Recent logs:"),
                                     Ev("output", "log lines")>>, running)
              [] OTHER -> Finish(call \o <<Ev("info", "No logs found")>>, running)
    /\ UNCHANGED <<mode, apiKey, current, projects, command, cur0, answer>>

\* ------------------------------------------------ _handle_list_projects
ListProjects ==
    /\ At("start") /\ TopFrame.fn = "list"
    /\ \E out \in {"raise", "ok"} :
        LET call == <<Ev("call", "list_projects")>>
        IN  IF out = "raise"
            THEN Propagate(call)
            ELSE IF list_projects # <<>>
            THEN Finish(call \o <<Ev("info", "Available projects:")>>, running)
            ELSE Finish(call \o <<Ev("info", "No projects found")>>, running)
    /\ UNCHANGED <<mode, apiKey, current, projects, command, cur0, answer>>

\* ------------------------------------------------- _handle_load_project
\* Variant: the listing is not tested for emptiness.
LoadStartUnchecked ==
    /\ At("start") /\ TopFrame.fn = "load"
    /\ \E out \in {"raise", "ok"} :
        LET f == TopFrame
            call == <<Ev("call", "list_projects")>>
        IN  IF f.arg # <<>>
            THEN Goto([f EXCEPT !.pc = "load_lookup"], <<>>)
            ELSE IF out = "raise"
            THEN Propagate(call)
            ELSE Goto([f EXCEPT !.pc = "load_prompt", !.listing = list_projects],
                      call \o <<Ev("info", "Available projects:")>>)
    /\ UNCHANGED <<mode, apiKey, current, projects, command, cur0, answer>>

LoadStart ==
    /\ At("start") /\ TopFrame.fn = "load"
    /\ \E out \in {"raise", "ok"} :
        LET f == TopFrame
            call == <<Ev("call", "list_projects")>>
        IN  IF f.arg # <<>>
            THEN Goto([f EXCEPT !.pc = "load_lookup"], <<>>)
            ELSE IF out = "raise"
            THEN Propagate(call)
            ELSE IF list_projects = <<>>
            THEN Finish(call \o <<Ev("error", "No projects available")>>, running)
            ELSE Goto([f EXCEPT !.pc = "load_prompt", !.listing = list_projects],
                      call \o <<Ev("info", "Available projects:")>>)
    /\ UNCHANGED <<mode, apiKey, current, projects, command, cur0, answer>>

\* Variant: the number is taken as a 0-based index.
SelectedZeroBased(choice, listing) ==
    IF IsDigit(choice)
    THEN LET idx == IntOf(choice)
         IN  IF 0 <= idx /\ idx < Len(listing) THEN listing[idx + 1] ELSE None
    ELSE choice

\* The project the answer to the selection prompt names: the entry at
\* int(choice) - 1 for a number in range, None for a number out of range,
\* the answer itself otherwise.
Selected(choice, listing) ==
    IF IsDigit(choice)
    THEN LET idx == IntOf(choice) - 1
         IN  IF 0 <= idx /\ idx < Len(listing) THEN listing[idx + 1] ELSE None
    ELSE choice

LoadPrompt ==
    /\ At("load_prompt")
    /\ \E choice \in Choices :
        LET f == TopFrame
            ask == <<Ev("ask", "Select project (number or name): ")>>
        IN  /\ answer' = choice
            /\ IF IsDigit(choice) /\ Selected(choice, f.listing) = None
               THEN Finish(ask \o <<Ev("error", "Invalid selection")>>, running)
               ELSE Goto([f EXCEPT !.pc = "load_lookup",
                                   !.arg = Selected(choice, f.listing)], ask)
    /\ UNCHANGED <<mode, apiKey, current, projects, command, cur0>>

\* Variant: the pointer is set to whatever the lookup returned.
LoadLookupUnguarded ==
    /\ At("load_lookup")
    /\ \E out \in {"raise", "ok"} :
        LET f == TopFrame
            project_path == get_project_path(f.arg)
            call == <<Ev("call", "get_project_path")>>
        IN  IF out = "raise"
            THEN Propagate(call) /\ UNCHANGED current
            ELSE /\ set_current_project(project_path)
                 /\ IF project_path # None
                    THEN Finish(call \o <<Ev("success", "Loaded project")>>, running)
                    ELSE Finish(call \o <<Ev("error", "Project not found")>>, running)
    /\ UNCHANGED <<mode, apiKey, projects, command, cur0, answer>>

LoadLookup ==
    /\ At("load_lookup")
    /\ \E out \in {"raise", "ok"} :
        LET f == TopFrame
            project_path == get_project_path(f.arg)
            call == <<Ev("call", "get_project_path")>>
        IN  IF out = "raise"
            THEN Propagate(call) /\ UNCHANGED current
            ELSE IF project_path # None
            THEN /\ set_current_project(project_path)
                 /\ Finish(call \o <<Ev("success", "Loaded project")>>, running)
            ELSE /\ Finish(call \o <<Ev("error", "Project not found")>>, running)
                 /\ UNCHANGED current
    /\ UNCHANGED <<mode, apiKey, projects, command, cur0, answer>>

\* ------------------------------------------------------- _handle_status
Status ==
    /\ At("start") /\ TopFrame.fn = "status"
    /\ \E out \in {"raise", "ok"} :
        LET current_project == get_current_project
            head == <<Ev("info", "=== AutoCoder Status ===")>>
            call == <<Ev("call", "get_project_info")>>
        IN  IF current_project = None
            THEN Finish(head, running)
            ELSE IF out = "raise"
            THEN Propagate(head \o call)
            ELSE Finish(head \o call \o <<Ev("info", "Project Type")>>, running)
    /\ UNCHANGED <<mode, apiKey, current, projects, command, cur0, answer>>

\* --------------------------------------------- _handle_natural_language
\* Variant: the test of the pointer is inverted.
NaturalLanguageInverted ==
    /\ At("start") /\ TopFrame.fn = "nl"
    /\ LET instruction == TopFrame.arg
           current_project == get_current_project
       IN  IF current_project = None
           THEN Call("nl_call", NewFrame("edit", "start", instruction), <<>>)
           ELSE Call("nl_call", NewFrame("new", "start", instruction), <<>>)
    /\ UNCHANGED <<mode, apiKey, current, projects, command, cur0, answer>>

NaturalLanguage ==
    /\ At("start") /\ TopFrame.fn = "nl"
    /\ LET instruction == TopFrame.arg
           current_project == get_current_project
       IN  IF current_project # None
           THEN Call("nl_call", NewFrame("edit", "start", instruction), <<>>)
           ELSE Call("nl_call", NewFrame("new", "start", instruction), <<>>)
    /\ UNCHANGED <<mode, apiKey, current, projects, command, cur0, answer>>

\* ------------------------------------------------------- specification
Next ==
    \/ Initialize
    \/ ReadCommand
    \/ OneShotCommand
    \/ HandleCommand
    \/ LoopExcept
    \/ Signal
    \/ NewStart
    \/ NewGenerate
    \/ NewCreate
    \/ NewInstall
    \/ NewSetCurrent
    \/ NewExcept
    \/ RunStart
    \/ RunCurrent
    \/ RunConfirm
    \/ RunExcept
    \/ EditStart
    \/ EditInfo
    \/ EditGenerate
    \/ EditApply
    \/ EditConfirm
    \/ EditExcept
    \/ RetryStart
    \/ RetryExcept
    \/ ShowLogs
    \/ ListProjects
    \/ LoadStart
    \/ LoadPrompt
    \/ LoadLookup
    \/ Status
    \/ NaturalLanguage

Spec == Init /\ [][Next]_vars

\* ============================================================ properties
\* ------------------------------------------------- reading the history
InLog(e) == \E i \in 1..Len(log) : log[i] = e

Calls(what) == InLog(Ev("call", what))

Entered(fn) == InLog(Ev("enter", fn))

KindIn(kind) == \E i \in 1..Len(log) : log[i][1] = kind

Count(e) == Cardinality({ i \in 1..Len(log) : log[i] = e })

SignalEv == Ev("info", "Shutting down gracefully...")

\* The first token of the dispatched line, lower-cased, and the remainder.
CmdWord == IF Split1(Dispatched) = <<>> THEN <<>> ELSE Lower(Split1(Dispatched)[1])

CmdArgs == IF Len(Split1(Dispatched)) > 1 THEN Split1(Dispatched)[2] ELSE <<>>

\* _handle_command has passed the line last read to a handler.
Handled == top # "dispatch" /\ log # <<>> /\ log[1][1] = "enter"

\* The exception of a collaborator has left _handle_command.
Escaped ==
    \/ top = "loop_except"
    \/ InLog(Ev("error", "An unexpected error occurred"))
    \/ InLog(Ev("fatal", "Fatal error"))

\* _handle_command has returned from the handler of the line last read.
Returned ==
    /\ Handled
    /\ top \in {"read", "exited"}
    /\ ~InLog(SignalEv)
    /\ ~Escaped

\* The commands _handle_command recognises.
Recognised ==
    { <<"n", "e", "w">>, <<"r", "u", "n">>, <<"e", "d", "i", "t">>,
      <<"r", "e", "t", "r", "y">>, <<"l", "o", "g", "s">>, <<"l", "i", "s", "t">>,
      <<"l", "o", "a", "d">>, <<"s", "t", "a", "t", "u", "s">>,
      <<"e", "x", "i", "t">>, <<"q", "u", "i", "t">>, <<"q">>,
      <<"h", "e", "l", "p">>, <<"?">> }

\* ------------------------------------------------------------------- C1
\* C1: a line whose lower-cased first token is no recognised command is
\* routed to the edit handler, and never to new-project creation, when a
\* current project was set at dispatch; it is routed to new-project
\* creation, and never to the edit handler, when none was set.
C1_Routing ==
    (Handled /\ CmdWord \notin Recognised) =>
        /\ cur0 # None => ~Entered("new")
        /\ cur0 = None => ~Entered("edit")
        /\ (Len(log) >= 2 /\ log[2] # SignalEv) =>
               log[2] = Ev("enter", IF cur0 # None THEN "edit" ELSE "new")

C1_Witness ==
    /\ Returned
    /\ CmdWord \notin Recognised
    /\ cur0 # None
    /\ Entered("edit")
    /\ Calls("edit_project")

\* ------------------------------------------------------------------- C2
NoProjectLoaded == Ev("error", "No project loaded. Use 'new' or 'load'.")

\* C2 as stated: a run command issued while no current project is set never
\* invokes the executor and reports the 'No project loaded' error.
C2_Original ==
    (Handled /\ CmdWord = <<"r", "u", "n">> /\ cur0 = None) =>
        /\ ~Calls("run_project")
        /\ Returned => InLog(NoProjectLoaded)

\* C2 amended: a run command without a project name issued while no current
\* project is set never invokes the executor and reports the 'No project
\* loaded' error as its only output.
C2_RunWithoutProject ==
    (Handled /\ CmdWord = <<"r", "u", "n">> /\ CmdArgs = <<>> /\ cur0 = None) =>
        /\ ~Calls("run_project")
        /\ ~Calls("install_dependencies")
        /\ current = None
        /\ Returned =>
              log = <<Ev("enter", "run"), Ev("enter", "rc"), NoProjectLoaded>>

C2_Witness ==
    /\ Returned
    /\ CmdWord = <<"r", "u", "n">>
    /\ CmdArgs = <<>>
    /\ cur0 = None
    /\ InLog(NoProjectLoaded)

\* ------------------------------------------------------------------- C3
\* C3: the pointer holds at most one project, and with the pointer unset
\* the commands edit and retry only report an error: no prompt, no call to
\* any collaborator, the pointer still unset.
C3_UnsetIsNoOp ==
    /\ current = None \/ \E name \in Names : current = PathOf(name)
    /\ (Handled /\ CmdWord \in { <<"e", "d", "i", "t">>, <<"r", "e", "t", "r", "y">> }
          /\ cur0 = None) =>
        /\ current = None
        /\ ~KindIn("ask")
        /\ ~KindIn("call")
        /\ ~Escaped
        /\ (top # "handling" /\ ~InLog(SignalEv)) =>
              /\ Len(log) = 2
              /\ log[2] = Ev("error", "No project loaded")
              /\ top = (IF mode = "interactive" THEN "read" ELSE "exited")

C3_Witness ==
    /\ Returned
    /\ CmdWord = <<"e", "d", "i", "t">>
    /\ CmdArgs = <<>>
    /\ cur0 = None
    /\ InLog(Ev("error", "No project loaded"))

\* ------------------------------------------------------------------- C4
AskSelect == Ev("ask", "Select project (number or name): ")

\* C4 as stated: load with a numeric argument makes the project at that
\* 1-based index of the listing current; out of range it reports an error
\* and leaves the pointer unchanged.
C4_Original ==
    (Returned /\ CmdWord = <<"l", "o", "a", "d">> /\ IsDigit(CmdArgs)) =>
        LET n == IntOf(CmdArgs)
        IN  IF 1 <= n /\ n <= Len(projects)
            THEN current = PathOf(projects[n])
            ELSE current = cur0 /\ KindIn("error")

\* C4 amended: load without an argument, the selection prompt answered with
\* a number: in range, the project at that 1-based index of the listing is
\* looked up and, once get_project_path has returned, is the current
\* project; out of range, 'Invalid selection' is reported, nothing is
\* looked up and the pointer is unchanged.
C4_LoadByNumber ==
    (Handled /\ CmdWord = <<"l", "o", "a", "d">> /\ CmdArgs = <<>>
       /\ InLog(AskSelect) /\ IsDigit(answer)) =>
        LET n == IntOf(answer)
        IN  IF 1 <= n /\ n <= Len(projects)
            THEN /\ At("load_lookup") => TopFrame.arg = projects[n]
                 /\ ~InLog(Ev("error", "Invalid selection"))
                 /\ Returned =>
                       /\ current = PathOf(projects[n])
                       /\ log[Len(log)] = Ev("success", "Loaded project")
            ELSE /\ current = cur0
                 /\ ~Calls("get_project_path")
                 /\ top # "handling"
                 /\ InLog(Ev("error", "Invalid selection"))

C4_Witness ==
    /\ Returned
    /\ CmdWord = <<"l", "o", "a", "d">>
    /\ CmdArgs = <<>>
    /\ answer = <<"2">>
    /\ Len(projects) = 2
    /\ current = PathOf(projects[2])
    /\ cur0 # current

\* ------------------------------------------------------------------- C5
\* C5: load without an argument, list_projects() returning no project,
\* reports 'No projects available', asks nothing and leaves the pointer as
\* it was.
C5_LoadNothing ==
    (Handled /\ CmdWord = <<"l", "o", "a", "d">> /\ CmdArgs = <<>>
       /\ projects = <<>>) =>
        /\ current = cur0
        /\ ~KindIn("ask")
        /\ ~At("load_prompt")
        /\ ~At("load_lookup")
        /\ Returned =>
              log = <<Ev("enter", "load"), Ev("call", "list_projects"),
                      Ev("error", "No projects available")>>

C5_Witness ==
    /\ Returned
    /\ CmdWord = <<"l", "o", "a", "d">>
    /\ CmdArgs = <<>>
    /\ projects = <<>>
    /\ InLog(Ev("error", "No projects available"))

\* ------------------------------------------------------------------- C6
Created == Ev("success", "Project created successfully")

\* create_project returned: its call is followed by the handler's next
\* statement, not by the except clause.
CreateReturned ==
    \E i \in 1..(Len(log) - 1) :
        /\ log[i] = Ev("call", "create_project")
        /\ log[i + 1] \in {Ev("call", "install_dependencies"), Created}

InstallRaised ==
    \E i \in 1..(Len(log) - 1) :
        /\ log[i] = Ev("call", "install_dependencies")
        /\ log[i + 1] = Ev("call", "logger.error")

\* C6 as stated: the API having returned a specification and create_project
\* a path, the new path is the current project when the handler finishes.
C6_Original ==
    (Returned /\ Entered("new") /\ CreateReturned) =>
        current = PathOf(projects[Len(projects)])

\* C6 amended: the API having returned a specification, create_project a
\* path, and install_dependencies, where it is called, not having raised,
\* the new path is the current project when the handler finishes, whatever
\* was current before, and the success message has been shown.
C6_NewSetsCurrent ==
    (Returned /\ Entered("new") /\ CreateReturned /\ ~InstallRaised) =>
        /\ current = PathOf(projects[Len(projects)])
        /\ InLog(Created)

C6_Witness ==
    /\ Returned
    /\ Entered("new")
    /\ CreateReturned
    /\ cur0 # None
    /\ current # cur0
    /\ current = PathOf(projects[Len(projects)])

\* ------------------------------------------------------------------- C7
Plain == Ev("return", "no dependencies, no auto_run")

\* C7 as stated: new with a description, the API returning a specification
\* without dependencies and without auto_run: the project is created, it is
\* the current project, the success message is shown and the executor is
\* never invoked.
C7_Original ==
    (Handled /\ CmdWord = <<"n", "e", "w">> /\ CmdArgs # <<>> /\ InLog(Plain)) =>
        /\ ~Calls("install_dependencies")
        /\ ~Calls("run_project")
        /\ Returned =>
              /\ CreateReturned
              /\ current = PathOf(projects[Len(projects)])
              /\ InLog(Created)

\* C7 amended: new with a description, the API returning a specification
\* without dependencies and without auto_run: the executor is never
\* invoked, and where create_project returns a path the project is the
\* current project and the success message is the last output.
C7_PlainProject ==
    (Handled /\ CmdWord = <<"n", "e", "w">> /\ CmdArgs # <<>> /\ InLog(Plain)) =>
        /\ ~Calls("install_dependencies")
        /\ ~Calls("run_project")
        /\ ~Entered("rc")
        /\ ~KindIn("ask")
        /\ (Returned /\ CreateReturned) =>
              /\ current = PathOf(projects[Len(projects)])
              /\ log[Len(log)] = Created

C7_Witness ==
    /\ Returned
    /\ CmdWord = <<"n", "e", "w">>
    /\ CmdArgs # <<>>
    /\ InLog(Plain)
    /\ CreateReturned
    /\ current = PathOf(projects[Len(projects)])
    /\ log[Len(log)] = Created

\* ------------------------------------------------------------------- C8
AskFix == Ev("ask", "Would you like me to try to fix the error?")

\* The first fix prompt of the command was declined.
DeclinedFirst ==
    \E i \in 1..(Len(log) - 1) :
        /\ log[i] = AskFix
        /\ \A j \in 1..(i - 1) : log[j] # AskFix
        /\ log[i + 1] = Ev("answer", "no")

IsMessage(e) ==
    e[1] \in {"error", "info", "success", "warning", "output"} /\ e # SignalEv

Messages == SelectSeq(log, IsMessage)

\* C8: run, the executor returning a failure, the fix prompt declined: the
\* error handler is never called, the executor is called once, and the
\* failure message is the last output of the command, which has ended.
C8_DeclinedFix ==
    (Handled /\ CmdWord = <<"r", "u", "n">> /\ DeclinedFirst) =>
        /\ ~Calls("fix_project_errors")
        /\ ~Entered("retry")
        /\ Count(Ev("call", "run_project")) = 1
        /\ top # "handling"
        /\ ~Escaped
        /\ Messages # <<>>
        /\ Messages[Len(Messages)] \in
              {Ev("error", "Project failed to start"), Ev("error", "result.error")}
        /\ InLog(Ev("error", "Project failed to start"))

C8_Witness ==
    /\ Returned
    /\ CmdWord = <<"r", "u", "n">>
    /\ CmdArgs = <<>>
    /\ cur0 # None
    /\ DeclinedFirst
    /\ Messages[Len(Messages)] = Ev("error", "result.error")

\* ------------------------------------------------------------------- C9
\* C9: a line that is empty once stripped calls no handler and changes
\* neither the pointer nor the running flag; the loop reads the next line.
C9_EmptyLine ==
    [][ (top = "read" /\ top' # "exited" /\ Strip(command') = <<>>) =>
          /\ top' = "read"
          /\ stack' = stack
          /\ current' = current
          /\ projects' = projects
          /\ running' = running
          /\ cur0' = cur0
          /\ log' = <<>> ]_vars

C9_Witness ==
    /\ top = "read"
    /\ command = <<" ", "\t">>
    /\ log = <<>>
    /\ running
    /\ current # None

\* ------------------------------------------------------------------ C10
Goodbye == Ev("info", "Goodbye!")

InitFailed ==
    \/ InLog(Ev("error", "OpenRouter API key not found!"))
    \/ InLog(Ev("error", "Failed to connect to OpenRouter API"))
    \/ InLog(Ev("error", "Initialization failed"))

Fatal == Ev("fatal", "Fatal error")

\* C11: no failure of a collaborator called inside a command handler leaves
\* _handle_command; in one-shot mode none ends the process as a fatal error.
C11_HandlersCatchAll ==
    Handled =>
        /\ ~Escaped
        /\ mode = "oneshot" => exitCode # 1

\* ------------------------------------------------------------------ C12
\* C12: the exit code is 1 after a failed initialization or a fatal
\* top-level exception, in interactive and in one-shot mode, and 0 after
\* any other end of the process.
C12_ExitCodes ==
    top = "exited" =>
        exitCode = (IF InitFailed \/ InLog(Fatal) THEN 1 ELSE 0)

\* ------------------------------------------------------------------ C13
CallFix == Ev("call", "fix_project_errors")

CallRun == Ev("call", "run_project")

Fixed == Ev("success", "Errors fixed! Trying to run again...")

\* C13: in retry with a current project, run_project is invoked again if
\* and only if fix_project_errors returned success; when it returned
\* failure or raised, 'Could not automatically fix the errors' or 'Retry
\* failed' is reported and run_project is not invoked.
C13_RetryRunsIffFixed ==
    (Handled /\ cur0 # None) =>
        /\ CmdWord = <<"r", "e", "t", "r", "y">> =>
              \A i \in 1..Len(log) :
                  log[i] = CallRun =>
                      /\ i > 3
                      /\ log[i - 1] = Ev("enter", "rc")
                      /\ log[i - 2] = Fixed
                      /\ log[i - 3] = CallFix
        /\ \A i \in 1..(Len(log) - 1) :
              (log[i] = CallFix /\ log[i + 1] # SignalEv) =>
                  IF log[i + 1] = Fixed
                  THEN (i + 3 <= Len(log) /\ log[i + 3] # SignalEv) =>
                           log[i + 3] = CallRun
                  ELSE /\ \A j \in (i + 1)..Len(log) : log[j] # CallRun
                       /\ \/ log[i + 1] =
                                Ev("error", "Could not automatically fix the errors")
                          \/ /\ log[i + 1] = Ev("call", "logger.error")
                             /\ (i + 2 <= Len(log) /\ log[i + 2] # SignalEv) =>
                                    log[i + 2] = Ev("error", "Retry failed")

\* ------------------------------------------------------------------ C14
Analyzing == Ev("info", "Analyzing and fixing errors...")

FailedToStart == Ev("error", "Project failed to start")

WritesPointer ==
    \/ CmdWord = <<"n", "e", "w">>
    \/ CmdWord = <<"l", "o", "a", "d">>
    \/ CmdWord = <<"r", "u", "n">> /\ CmdArgs # <<>>
    \/ CmdWord # <<>> /\ CmdWord \notin Recognised /\ cur0 = None

\* C15: the current-project pointer changes only in a step of new, of load,
\* of run with a name, or of natural-language input routed to new; every
\* step of edit, retry, run without a name, logs, list, status, help and
\* exit, nested run and retry cycles included, leaves it unchanged.
C15_PointerWriters ==
    [][current' # current => (top = "handling" /\ WritesPointer)]_vars

\* An edit command that went through a failed run, a fix and a second run
\* and returned with the pointer it was dispatched with.
C15_Witness ==
    /\ Returned
    /\ CmdWord = <<"e", "d", "i", "t">>
    /\ InLog(CallFix)
    /\ Count(CallRun) = 2
    /\ cur0 # None
    /\ current = cur0

\* ------------------------------------------------------------------ C16
\* C16: a shutdown signal delivered in any state after construction sets
\* the running flag to false and ends the process with exit code 0, and
\* no step (no command read, no dispatch, no handler step) follows it.
C16_SignalEnds ==
    /\ [](InLog(SignalEv) =>
            /\ log[Len(log)] = SignalEv
            /\ ~running
            /\ top = "exited"
            /\ stack = <<>>
            /\ exitCode = 0)
    /\ [][~InLog(SignalEv)]_vars

\* The signal arrived inside the retry handler entered from the fix prompt
\* of a failed run.
C16_Witness ==
    /\ top = "exited"
    /\ exitCode = 0
    /\ Len(log) > 2
    /\ log[Len(log)] = SignalEv
    /\ log[Len(log) - 1] = Ev("enter", "retry")
    /\ InLog(AskFix)

\* ------------------------------------------------------------------ C17
\* C17: no step unsets a set current-project pointer, the pointer seen at
\* dispatch is the pointer of that moment, and so every unrecognised line
\* dispatched after the pointer was first set enters the edit handler and
\* never new-project creation.
C17_NeverUnset ==
    /\ [][/\ current # None => current' # None
          /\ cur0' # cur0 => (top = "dispatch" /\ cur0' = current)]_vars
    /\ []((Handled /\ cur0 # None /\ CmdWord # <<>> /\ CmdWord \notin Recognised) =>
            /\ ~Entered("new")
            /\ (Len(log) >= 2 /\ log[2] # SignalEv) => log[2] = Ev("enter", "edit"))

\* An unrecognised line went to the edit handler, a failure left the
\* handler, and the project is still current when the next line is read.
C17_Witness ==
    /\ top = "read"
    /\ Handled
    /\ CmdWord \notin Recognised
    /\ cur0 # None
    /\ Entered("edit")
    /\ InLog(Ev("error", "An unexpected error occurred"))
    /\ current # None

\* ------------------------------------------------------------------ C18
InstallWarning == Ev("warning", "Some dependencies failed to install")

\* new ended before create_project returned a path: the pointer is the one
\* of the dispatch and no method of the executor was called.
NothingMaterialized ==
    ~CreateReturned =>
        /\ current = cur0
        /\ ~Calls("install_dependencies")
        /\ ~Calls("run_project")
        /\ ~Entered("rc")

NotFound == Ev("error", "Project not found")

\* C19: run <name> and load <name> with a name get_project_path knows no
\* path for leave the pointer as it was at dispatch and, once the lookup
\* has returned, end with the 'not found' error; the executor is not
\* invoked, whether or not another project is current.
C19_UnknownName ==
    (/\ Handled
     /\ CmdWord \in { <<"r", "u", "n">>, <<"l", "o", "a", "d">> }
     /\ CmdArgs # <<>>
     /\ get_project_path(CmdArgs) = None) =>
        /\ current = cur0
        /\ ~Calls("run_project")
        /\ ~Entered("rc")
        /\ Returned =>
              /\ Count(NotFound) = 1
              /\ log[Len(log)] = NotFound
              /\ log[Len(log) - 1] = Ev("call", "get_project_path")

\* run with an unknown name while another project is current.
C19_Witness ==
    /\ Returned
    /\ CmdWord = <<"r", "u", "n">>
    /\ CmdArgs # <<>>
    /\ get_project_path(CmdArgs) = None
    /\ cur0 # None
    /\ current = cur0
    /\ log[Len(log)] = NotFound

\* ------------------------------------------------------------------ C20
TestConnection == Ev("call", "test_connection")

\* C20: after a failed initialization, in interactive and in one-shot mode,
\* the process has ended with no line dispatched, no handler entered and no
\* collaborator called but test_connection, and no step follows; without an
\* API key test_connection is not called either and nothing is dispatched.
C20_InitGate ==
    /\ [](InitFailed =>
            /\ top = "exited"
            /\ stack = <<>>
            /\ command = <<>>
            /\ current = None
            /\ \A i \in 1..Len(log) :
                  /\ log[i][1] # "enter"
                  /\ log[i][1] = "call" => log[i] = TestConnection)
    /\ [](~apiKey =>
            /\ top \in {"start", "exited"}
            /\ ~InLog(TestConnection)
            /\ ~KindIn("enter"))
    /\ [][~InitFailed]_vars

\* One-shot mode: the key is there, the connection test was made and
\* failed, and the process has ended.
C20_Witness ==
    /\ mode = "oneshot"
    /\ apiKey
    /\ top = "exited"
    /\ log[Len(log)] = Ev("error", "Failed to connect to OpenRouter API")
    /\ InLog(TestConnection)
    /\ command = <<>>

====
